---- MODULE Spec2Model ----
(***************************************************************************)
(* Feedback submission pipeline of the student page SubmitFeedback.tsx:    *)
(* validate -> classify through the remote function (keyword fallback on   *)
(* failure) -> insert into the feedback table -> report by toast.           *)
(*                                                                         *)
(* Strings whose characters the code inspects (the feedback text and the   *)
(* keywords) are sequences of one-character strings; strings the code only *)
(* compares or tests for emptiness (subject, category, labels) are TLA+     *)
(* strings.                                                                 *)
(***************************************************************************)
EXTENDS Integers, Sequences, FiniteSets, TLC

\* Number of handleSubmit invocations a behaviour may hold.
MaxInv == 2

\* Number of pieces a text handed to the keyword heuristic alone is made of.
MaxWords == 2

Inv == 1..MaxInv

VARIABLES
    studentRow,     \* the row of table students for the signed-in user (external)
    studentInfo,    \* useState<StudentInfo | null>
    subject,        \* useState('')
    category,       \* useState('')
    feedbackText,   \* useState('')
    isSubmitting,   \* useState(false)
    isAnalyzing,    \* useState(false)
    location,       \* the router's current path
    pc,             \* per invocation: where handleSubmit stands
    captured,       \* per invocation: the values its closure reads
    sentiment,      \* per invocation: the value analyzeSentiment returned
    classifyCalls,  \* per invocation: functions.invoke('analyze-sentiment') calls
    classifyArg,    \* per invocation: the body handed to functions.invoke
    insertCalls,    \* per invocation: from('feedback').insert calls
    insertArg,      \* per invocation: the record handed to insert
    toast,          \* per invocation: the toast it raised
    console,        \* per invocation: the console.error messages it wrote
    feedback,       \* the rows of table feedback (external)
    route,          \* App.tsx: what useAuth gives ProtectedRoute, and its element
    keywordRun      \* a run of the catch block of analyzeSentiment on its own

vars == <<studentRow, studentInfo, subject, category, feedbackText, isSubmitting,
          isAnalyzing, location, pc, captured, sentiment, classifyCalls,
          classifyArg, insertCalls, insertArg, toast, console, feedback, route,
          keywordRun>>

formVars == <<subject, category, feedbackText>>
flagVars == <<isSubmitting, isAnalyzing>>
invVars == <<pc, captured, sentiment, classifyCalls, classifyArg, insertCalls,
             insertArg, toast, console>>
otherVars == <<route, keywordRun>>

----------------------------------------------------------------------------
\* Strings as character sequences

Whitespace == {" ", "\t", "\n"}

UpperCase == <<"A","B","C","D","E","F","G","H","I","J","K","L","M",
               "N","O","P","Q","R","S","T","U","V","W","X","Y","Z">>
LowerCase == <<"a","b","c","d","e","f","g","h","i","j","k","l","m",
               "n","o","p","q","r","s","t","u","v","w","x","y","z">>

\* One character of String.prototype.toLowerCase
toLowerChar(c) ==
    IF \E k \in 1..Len(UpperCase) : UpperCase[k] = c
    THEN LowerCase[CHOOSE k \in 1..Len(UpperCase) : UpperCase[k] = c]
    ELSE c

toLowerCase(s) == [k \in 1..Len(s) |-> toLowerChar(s[k])]

\* String.prototype.includes
includes(s, k) ==
    \E p \in 0..(Len(s) - Len(k)) : SubSeq(s, p + 1, p + Len(k)) = k

\* String.prototype.trim
trim(s) ==
    LET keep == {p \in 1..Len(s) : s[p] \notin Whitespace}
    IN  IF keep = {} THEN <<>>
        ELSE LET lo == CHOOSE p \in keep : \A q \in keep : p <= q
                 hi == CHOOSE p \in keep : \A q \in keep : q <= p
             IN  SubSeq(s, lo, hi)

----------------------------------------------------------------------------
\* Values

Positive == "Positive"
Neutral == "Neutral"
Negative == "Negative"
Labels == {Positive, Neutral, Negative}

\* The keywords of the fallback, as written in analyzeSentiment
PositiveKeywords ==
    { <<"e","x","c","e","l","l","e","n","t">>,
      <<"g","r","e","a","t">>,
      <<"g","o","o","d">>,
      <<"h","e","l","p","f","u","l">>,
      <<"a","m","a","z","i","n","g">> }
NegativeKeywords ==
    { <<"b","a","d">>,
      <<"p","o","o","r">>,
      <<"t","e","r","r","i","b","l","e">>,
      <<"w","o","r","s","t">>,
      <<"d","i","s","a","p","p","o","i","n","t","e","d">> }

\* Feedback texts the user may type
TextEmpty == <<>>
TextBlank == <<" ", "\n">>
TextGreatButBad == <<" ","G","r","e","a","t"," ","b","u","t"," ","b","a","d">>
TextPoor == <<"P","O","O","R"," ">>
TextFine == <<"i","t"," ","w","a","s"," ","f","i","n","e">>
Texts == {TextEmpty, TextBlank, TextGreatButBad, TextPoor, TextFine}

\* Entries of SUBJECTS and CATEGORIES a Select may set
SUBJECTS == {"Physics"}
CATEGORIES == {"General"}

\* null, and the rows table students may hold for the signed-in user
NoStudent == [id |-> "", branch |-> "", semester |-> 0]
Students == { [id |-> "s1", branch |-> "CSE", semester |-> 3] }

FormPath == "/student/feedback"
StudentPath == "/student"

\* What supabase.functions.invoke may do: throw, return an error, or return
\* data of any shape. Absent stands for a data object without the field.
Absent == "<absent>"
Unrecognized == "Mixed"
SentimentValues == {Absent, ""} \cup Labels \cup {Unrecognized}
RemoteResponses ==
    { [kind |-> "throw", sentiment |-> Absent],
      [kind |-> "error", sentiment |-> Absent],
      [kind |-> "nulldata", sentiment |-> Absent] }
    \cup { [kind |-> "data", sentiment |-> v] : v \in SentimentValues }

\* What the insert may do: succeed, return an error of some kind, or throw
StoreResults == {"ok", "network", "constraint", "throw"}

NoCapture == [studentInfo |-> NoStudent, subject |-> "", category |-> "",
              feedbackText |-> <<>>]
NoRecord == [student_id |-> "", subject |-> "", category |-> "",
             feedback_text |-> <<>>, sentiment |-> "", branch |-> "",
             semester |-> 0]
NoBody == [text |-> <<>>]
NoToast == [title |-> "", description |-> <<>>]

MissingIdentityToast ==
    [title |-> "Error", description |-> <<"Student information not found">>]
MissingFieldsToast ==
    [title |-> "Missing Fields",
     description |-> <<"Please fill in all required fields">>]
SubmittedToast(label) ==
    [title |-> "Feedback Submitted",
     description |-> <<"Your feedback was classified as ", label>>]
SubmissionFailedToast ==
    [title |-> "Submission Failed",
     description |-> <<"Failed to submit feedback. Please try again.">>]

SentimentErrorLog == "Sentiment analysis error:"
SubmitErrorLog == "Error submitting feedback:"

\* App.tsx: what useAuth may give ProtectedRoute (role null until known), the
\* allowedRoles of the routes of AppRoutes, and the elements it returns
NoUser == "<null>"
Users == {NoUser, "u1"}
NoRole == "<null>"
Roles == {NoRole, "admin", "faculty", "student", "guest"}
AllowedRoleSets == {{"admin"}, {"faculty"}, {"student"}}
NotRendered == "<none>"
LoadingElement == "Loading..."
NavigateAuth == "Navigate to /auth"
Children == "children"

\* The route under which SubmitFeedback is mounted
FeedbackRoute ==
    [loading |-> FALSE, user |-> "u1", role |-> "student",
     allowedRoles |-> {"student"}, element |-> Children]

\* Pieces of text for runs of the keyword heuristic on its own; a text is the
\* concatenation of at most MaxWords of them
WordGreat == <<"g","r","e","a","t">>
WordGoo == <<"g","o","o">>
WordD == <<"d">>
WordHelpful == <<"H","E","L","P","F","U","L">>
WordExcellent == <<"E","x","c","e","l","l","e","n","t">>
WordAmazing == <<"a","m","a","z","i","n","g">>
WordButTerrible == <<" ","b","u","t"," ","t","e","r","r","i","b","l","e">>
WordBa == <<"b","a">>
WordPoor == <<"P","O","O","R">>
WordWorst == <<"W","o","r","s","t">>
WordFine == <<"i","t"," ","w","a","s"," ","f","i","n","e">>
WordDisappointed == <<"d","i","s","a","p","p","o","i","n","t","e","d"," ","a","n","d"," ">>
Words == {WordGreat, WordGoo, WordD, WordHelpful, WordExcellent, WordAmazing,
          WordButTerrible, WordBa, WordPoor, WordWorst,
          WordFine, WordDisappointed}

RECURSIVE TextsOfWords(_)
TextsOfWords(n) ==
    IF n = 0 THEN {<<>>}
    ELSE LET shorter == TextsOfWords(n - 1)
         IN  shorter \cup {t \o w : t \in shorter, w \in Words}

KeywordTexts == TextsOfWords(MaxWords)

NotRun == "<none>"
NoKeywordRun == [text |-> <<>>, label |-> NotRun]

----------------------------------------------------------------------------
\* analyzeSentiment

\* Mutant: the negative keywords are tested before the positive ones
KeywordFallbackNegativeFirst(text) ==
    LET lowerText == toLowerCase(text)
    IN  IF \E k \in NegativeKeywords : includes(lowerText, k) THEN Negative
        ELSE IF \E k \in PositiveKeywords : includes(lowerText, k) THEN Positive
        ELSE Neutral

\* Mutant: the keywords are looked for in the text as typed
KeywordFallbackCaseSensitive(text) ==
    IF \E k \in PositiveKeywords : includes(text, k) THEN Positive
    ELSE IF \E k \in NegativeKeywords : includes(text, k) THEN Negative
    ELSE Neutral

\* The catch block: the keyword heuristic on the lower-cased text
KeywordFallback(text) ==
    LET lowerText == toLowerCase(text)
    IN  IF \E k \in PositiveKeywords : includes(lowerText, k) THEN Positive
        ELSE IF \E k \in NegativeKeywords : includes(lowerText, k) THEN Negative
        ELSE Neutral

\* KeywordFallback over the texts the form can hold, evaluated once
FallbackOf == [t \in Texts |-> KeywordFallback(t)]

\* Whether the try block is left by an exception: invoke throws, `if (error)
\* throw error`, or reading data.sentiment of a null data throws a TypeError
TryThrows(r) == r.kind \in {"throw", "error", "nulldata"}

\* `data.sentiment || 'Neutral'`: an absent or empty sentiment is falsy
SentimentOrNeutral(v) == IF v \in {Absent, ""} THEN Neutral ELSE v

\* Mutant: the catch block answers Neutral without the keyword heuristic
AnalyzeResultNoFallback(text, r) ==
    IF TryThrows(r) THEN Neutral ELSE SentimentOrNeutral(r.sentiment)

\* Mutant: a keyword found in the text overrides the remote label
AnalyzeResultKeywordOverrides(text, r) ==
    IF TryThrows(r) \/ FallbackOf[text] # Neutral THEN FallbackOf[text]
    ELSE SentimentOrNeutral(r.sentiment)

\* The value analyzeSentiment(text) returns when invoke answers r
AnalyzeResult(text, r) ==
    IF TryThrows(r) THEN FallbackOf[text] ELSE SentimentOrNeutral(r.sentiment)

----------------------------------------------------------------------------
\* The component as mounted: every useState at its initial value, no
\* invocation begun, the table empty
PipelineFresh ==
    /\ studentInfo = NoStudent
    /\ subject = ""
    /\ category = ""
    /\ feedbackText = <<>>
    /\ isSubmitting = FALSE
    /\ isAnalyzing = FALSE
    /\ location = FormPath
    /\ pc = [i \in Inv |-> "idle"]
    /\ captured = [i \in Inv |-> NoCapture]
    /\ sentiment = [i \in Inv |-> ""]
    /\ classifyCalls = [i \in Inv |-> 0]
    /\ classifyArg = [i \in Inv |-> NoBody]
    /\ insertCalls = [i \in Inv |-> 0]
    /\ insertArg = [i \in Inv |-> NoRecord]
    /\ toast = [i \in Inv |-> NoToast]
    /\ console = [i \in Inv |-> {}]
    /\ feedback = {}

Init ==
    /\ studentRow \in Students \cup {NoStudent}
    /\ PipelineFresh
    /\ route = FeedbackRoute
    /\ keywordRun = NoKeywordRun

\* useEffect -> fetchStudentInfo: `if (data) setStudentInfo(data)`
fetchStudentInfo ==
    /\ location = FormPath
    /\ studentInfo' = IF studentRow # NoStudent THEN studentRow ELSE studentInfo
    /\ UNCHANGED <<otherVars, studentRow, formVars, flagVars, location, invVars, feedback>>

setSubject(v) ==
    /\ location = FormPath
    /\ subject' = v
    /\ UNCHANGED <<otherVars, studentRow, studentInfo, category, feedbackText, flagVars,
                   location, invVars, feedback>>

setCategory(v) ==
    /\ location = FormPath
    /\ category' = v
    /\ UNCHANGED <<otherVars, studentRow, studentInfo, subject, feedbackText, flagVars,
                   location, invVars, feedback>>

setFeedbackText(v) ==
    /\ location = FormPath
    /\ feedbackText' = v
    /\ UNCHANGED <<otherVars, studentRow, studentInfo, subject, category, flagVars,
                   location, invVars, feedback>>

----------------------------------------------------------------------------
\* handleSubmit

\* Mutant: the identity test is missing
IdentityResolvedUnchecked(info) == TRUE

\* `if (!studentInfo)`
IdentityResolved(info) == info # NoStudent

\* Mutant: the body is tested without trim()
FieldsPresentNoTrim(subj, cat, text) == subj # "" /\ cat # "" /\ text # <<>>

\* `if (!subject || !category || !feedbackText.trim())`, negated
FieldsPresent(subj, cat, text) == subj # "" /\ cat # "" /\ trim(text) # <<>>

\* Mutant: branch is filled from the wrong field
FeedbackRecordWrongBranch(cap, label) ==
    [student_id |-> cap.studentInfo.id,
     subject |-> cap.subject,
     category |-> cap.category,
     feedback_text |-> cap.feedbackText,
     sentiment |-> label,
     branch |-> cap.category,
     semester |-> cap.studentInfo.semester]

\* Mutant: the record stores the trimmed text, not the text as typed
FeedbackRecordTrimmed(cap, label) ==
    [student_id |-> cap.studentInfo.id,
     subject |-> cap.subject,
     category |-> cap.category,
     feedback_text |-> trim(cap.feedbackText),
     sentiment |-> label,
     branch |-> cap.studentInfo.branch,
     semester |-> cap.studentInfo.semester]

\* The object literal handed to supabase.from('feedback').insert
FeedbackRecord(cap, label) ==
    [student_id |-> cap.studentInfo.id,
     subject |-> cap.subject,
     category |-> cap.category,
     feedback_text |-> cap.feedbackText,
     sentiment |-> label,
     branch |-> cap.studentInfo.branch,
     semester |-> cap.studentInfo.semester]

\* The values the handler's closure holds: the state of the render it was
\* created in
Closure ==
    [studentInfo |-> studentInfo, subject |-> subject, category |-> category,
     feedbackText |-> feedbackText]

\* Mutant: analyzeSentiment is not awaited, the insert is issued at once
handleSubmitNoAwait(i) ==
    /\ location = FormPath
    /\ pc[i] = "idle"
    /\ \A j \in Inv : j < i => pc[j] # "idle"
    /\ IF ~IdentityResolved(studentInfo)
       THEN /\ toast' = [toast EXCEPT ![i] = MissingIdentityToast]
            /\ pc' = [pc EXCEPT ![i] = "done"]
            /\ UNCHANGED <<flagVars, captured, classifyCalls, classifyArg, insertCalls, insertArg>>
       ELSE IF ~FieldsPresent(subject, category, feedbackText)
       THEN /\ toast' = [toast EXCEPT ![i] = MissingFieldsToast]
            /\ pc' = [pc EXCEPT ![i] = "done"]
            /\ UNCHANGED <<flagVars, captured, classifyCalls, classifyArg, insertCalls, insertArg>>
       ELSE /\ isSubmitting' = TRUE
            /\ isAnalyzing' = TRUE
            /\ captured' = [captured EXCEPT ![i] = Closure]
            /\ classifyCalls' = [classifyCalls EXCEPT ![i] = @ + 1]
            /\ classifyArg' = [classifyArg EXCEPT ![i] = [text |-> feedbackText]]
            /\ insertCalls' = [insertCalls EXCEPT ![i] = @ + 1]
            /\ insertArg' = [insertArg EXCEPT ![i] = FeedbackRecord(Closure, "")]
            /\ pc' = [pc EXCEPT ![i] = "awaitClassify"]
            /\ UNCHANGED toast
    /\ UNCHANGED <<otherVars, studentRow, studentInfo, formVars, location, sentiment,
                   console, feedback>>

\* Mutant: the handler returns at once while a submission is under way
handleSubmitGuarded(i) ==
    /\ location = FormPath
    /\ pc[i] = "idle"
    /\ \A j \in Inv : j < i => pc[j] # "idle"
    /\ IF isSubmitting
       THEN /\ pc' = [pc EXCEPT ![i] = "done"]
            /\ UNCHANGED <<flagVars, captured, classifyCalls, classifyArg, toast>>
       ELSE IF ~IdentityResolved(studentInfo)
       THEN /\ toast' = [toast EXCEPT ![i] = MissingIdentityToast]
            /\ pc' = [pc EXCEPT ![i] = "done"]
            /\ UNCHANGED <<flagVars, captured, classifyCalls, classifyArg>>
       ELSE IF ~FieldsPresent(subject, category, feedbackText)
       THEN /\ toast' = [toast EXCEPT ![i] = MissingFieldsToast]
            /\ pc' = [pc EXCEPT ![i] = "done"]
            /\ UNCHANGED <<flagVars, captured, classifyCalls, classifyArg>>
       ELSE /\ isSubmitting' = TRUE
            /\ isAnalyzing' = TRUE
            /\ captured' = [captured EXCEPT ![i] = Closure]
            /\ classifyCalls' = [classifyCalls EXCEPT ![i] = @ + 1]
            /\ classifyArg' = [classifyArg EXCEPT ![i] = [text |-> feedbackText]]
            /\ pc' = [pc EXCEPT ![i] = "awaitClassify"]
            /\ UNCHANGED toast
    /\ UNCHANGED <<otherVars, studentRow, studentInfo, formVars, location, sentiment,
                   insertCalls, insertArg, console, feedback>>

\* The submit event: handleSubmit runs up to its first suspension, the
\* await of functions.invoke inside analyzeSentiment. Invocations take their
\* numbers in the order they start. The handler tests nothing but the two
\* validations: the button's disabled attribute is outside it.
handleSubmit(i) ==
    /\ location = FormPath
    /\ pc[i] = "idle"
    /\ \A j \in Inv : j < i => pc[j] # "idle"
    /\ IF ~IdentityResolved(studentInfo)
       THEN /\ toast' = [toast EXCEPT ![i] = MissingIdentityToast]
            /\ pc' = [pc EXCEPT ![i] = "done"]
            /\ UNCHANGED <<flagVars, captured, classifyCalls, classifyArg>>
       ELSE IF ~FieldsPresent(subject, category, feedbackText)
       THEN /\ toast' = [toast EXCEPT ![i] = MissingFieldsToast]
            /\ pc' = [pc EXCEPT ![i] = "done"]
            /\ UNCHANGED <<flagVars, captured, classifyCalls, classifyArg>>
       ELSE /\ isSubmitting' = TRUE
            /\ isAnalyzing' = TRUE
            /\ captured' = [captured EXCEPT ![i] = Closure]
            /\ classifyCalls' = [classifyCalls EXCEPT ![i] = @ + 1]
            /\ classifyArg' = [classifyArg EXCEPT ![i] = [text |-> feedbackText]]
            /\ pc' = [pc EXCEPT ![i] = "awaitClassify"]
            /\ UNCHANGED toast
    /\ UNCHANGED <<otherVars, studentRow, studentInfo, formVars, location, sentiment,
                   insertCalls, insertArg, console, feedback>>

\* functions.invoke settles with r: analyzeSentiment finishes (result,
\* console.error in the catch, setIsAnalyzing(false) in the finally) and
\* handleSubmit goes on to hand the record to insert, where it suspends again.
analyzeSentimentReturn(i, r) ==
    /\ pc[i] = "awaitClassify"
    /\ pc' = [pc EXCEPT ![i] = "awaitInsert"]
    /\ LET label == AnalyzeResult(captured[i].feedbackText, r)
       IN  /\ sentiment' = [sentiment EXCEPT ![i] = label]
           /\ insertArg' = [insertArg EXCEPT ![i] = FeedbackRecord(captured[i], label)]
    /\ console' = [console EXCEPT ![i] =
                     IF TryThrows(r) THEN @ \cup {SentimentErrorLog} ELSE @]
    /\ isAnalyzing' = FALSE
    /\ insertCalls' = [insertCalls EXCEPT ![i] = @ + 1]
    /\ UNCHANGED <<otherVars, studentRow, studentInfo, formVars, isSubmitting, location,
                   captured, classifyCalls, classifyArg, toast, feedback>>

\* Mutant: a failed insert is issued once more instead of being reported
insertReturnRetry(i, res) ==
    /\ pc[i] = "awaitInsert"
    /\ IF res = "ok"
       THEN /\ feedback' = feedback \cup {[row |-> i, record |-> insertArg[i]]}
            /\ toast' = [toast EXCEPT ![i] = SubmittedToast(sentiment[i])]
            /\ location' = StudentPath
            /\ isSubmitting' = FALSE
            /\ captured' = [captured EXCEPT ![i] = NoCapture]
            /\ pc' = [pc EXCEPT ![i] = "done"]
            /\ UNCHANGED <<console, insertCalls>>
       ELSE IF insertCalls[i] < 2
       THEN /\ insertCalls' = [insertCalls EXCEPT ![i] = @ + 1]
            /\ UNCHANGED <<feedback, toast, location, isSubmitting, captured, pc,
                           console>>
       ELSE /\ console' = [console EXCEPT ![i] = @ \cup {SubmitErrorLog}]
            /\ toast' = [toast EXCEPT ![i] = SubmissionFailedToast]
            /\ isSubmitting' = FALSE
            /\ captured' = [captured EXCEPT ![i] = NoCapture]
            /\ pc' = [pc EXCEPT ![i] = "done"]
            /\ UNCHANGED <<feedback, location, insertCalls>>
    /\ UNCHANGED <<otherVars, studentRow, studentInfo, formVars, isAnalyzing, sentiment,
                   classifyCalls, classifyArg, insertArg>>

\* Mutant: `if (error) throw error` is missing, only a thrown insert fails
insertReturnIgnoresError(i, res) ==
    /\ pc[i] = "awaitInsert"
    /\ IF res # "throw"
       THEN /\ feedback' = IF res = "ok"
                           THEN feedback \cup {[row |-> i, record |-> insertArg[i]]}
                           ELSE feedback
            /\ toast' = [toast EXCEPT ![i] = SubmittedToast(sentiment[i])]
            /\ location' = StudentPath
            /\ UNCHANGED console
       ELSE /\ console' = [console EXCEPT ![i] = @ \cup {SubmitErrorLog}]
            /\ toast' = [toast EXCEPT ![i] = SubmissionFailedToast]
            /\ UNCHANGED <<feedback, location>>
    /\ isSubmitting' = FALSE
    /\ captured' = [captured EXCEPT ![i] = NoCapture]
    /\ pc' = [pc EXCEPT ![i] = "done"]
    /\ UNCHANGED <<otherVars, studentRow, studentInfo, formVars, isAnalyzing, sentiment,
                   classifyCalls, classifyArg, insertCalls, insertArg>>

\* Mutant: setIsSubmitting(false) follows the success path only, not a finally
insertReturnNoFinally(i, res) ==
    /\ pc[i] = "awaitInsert"
    /\ IF res = "ok"
       THEN /\ feedback' = feedback \cup {[row |-> i, record |-> insertArg[i]]}
            /\ toast' = [toast EXCEPT ![i] = SubmittedToast(sentiment[i])]
            /\ location' = StudentPath
            /\ isSubmitting' = FALSE
            /\ UNCHANGED console
       ELSE /\ console' = [console EXCEPT ![i] = @ \cup {SubmitErrorLog}]
            /\ toast' = [toast EXCEPT ![i] = SubmissionFailedToast]
            /\ UNCHANGED <<feedback, location, isSubmitting>>
    /\ captured' = [captured EXCEPT ![i] = NoCapture]
    /\ pc' = [pc EXCEPT ![i] = "done"]
    /\ UNCHANGED <<otherVars, studentRow, studentInfo, formVars, isAnalyzing, sentiment,
                   classifyCalls, classifyArg, insertCalls, insertArg>>

\* The insert settles with res: on success the row is in the table, the
\* toast names the label and the router leaves the form; otherwise the catch
\* logs and raises the failure toast. The finally clears isSubmitting, and
\* the closure is gone.
insertReturn(i, res) ==
    /\ pc[i] = "awaitInsert"
    /\ IF res = "ok"
       THEN /\ feedback' = feedback \cup {[row |-> i, record |-> insertArg[i]]}
            /\ toast' = [toast EXCEPT ![i] = SubmittedToast(sentiment[i])]
            /\ location' = StudentPath
            /\ UNCHANGED console
       ELSE /\ console' = [console EXCEPT ![i] = @ \cup {SubmitErrorLog}]
            /\ toast' = [toast EXCEPT ![i] = SubmissionFailedToast]
            /\ UNCHANGED <<feedback, location>>
    /\ isSubmitting' = FALSE
    /\ captured' = [captured EXCEPT ![i] = NoCapture]
    /\ pc' = [pc EXCEPT ![i] = "done"]
    /\ UNCHANGED <<otherVars, studentRow, studentInfo, formVars, isAnalyzing, sentiment,
                   classifyCalls, classifyArg, insertCalls, insertArg>>

----------------------------------------------------------------------------
Next ==
    \/ fetchStudentInfo
    \/ \E v \in SUBJECTS : setSubject(v)
    \/ \E v \in CATEGORIES : setCategory(v)
    \/ \E v \in Texts : setFeedbackText(v)
    \/ \E i \in Inv : handleSubmit(i)
    \/ \E i \in Inv, r \in RemoteResponses : analyzeSentimentReturn(i, r)
    \/ \E i \in Inv, res \in StoreResults : insertReturn(i, res)

Spec == Init /\ [][Next]_vars

\* The same program with its inputs drawn from fewer values: one blank and
\* two valid texts, a classifier that throws, fails or answers Positive, a
\* store that accepts, returns an error or throws
FairTexts == {TextBlank, TextPoor, TextFine}
FairResponses ==
    {r \in RemoteResponses : r.kind \in {"throw", "error"} \/ r.sentiment = Positive}
FairResults == {"ok", "network", "throw"}

NextFair ==
    \/ fetchStudentInfo
    \/ \E v \in SUBJECTS : setSubject(v)
    \/ \E v \in CATEGORIES : setCategory(v)
    \/ \E v \in FairTexts : setFeedbackText(v)
    \/ \E i \in Inv : handleSubmit(i)
    \/ \E i \in Inv, r \in FairResponses : analyzeSentimentReturn(i, r)
    \/ \E i \in Inv, res \in FairResults : insertReturn(i, res)

\* Every call that was issued settles: the classifier call and the insert of
\* each invocation eventually return or fail
FairSpec ==
    /\ Init
    /\ [][NextFair]_vars
    /\ \A i \in Inv : WF_vars(\E r \in FairResponses : analyzeSentimentReturn(i, r))
    /\ \A i \in Inv : WF_vars(\E res \in FairResults : insertReturn(i, res))

----------------------------------------------------------------------------
\* The catch block of analyzeSentiment as a function of the text alone

InitKeyword ==
    /\ studentRow = NoStudent
    /\ PipelineFresh
    /\ route = FeedbackRoute
    /\ keywordRun \in [text : KeywordTexts, label : {NotRun}]

runKeywordFallback ==
    /\ keywordRun.label = NotRun
    /\ keywordRun' = [keywordRun EXCEPT !.label = KeywordFallback(keywordRun.text)]
    /\ UNCHANGED <<studentRow, studentInfo, formVars, flagVars, location, invVars,
                   feedback, route>>

SpecKeyword == InitKeyword /\ [][runKeywordFallback]_vars

----------------------------------------------------------------------------
\* ProtectedRoute of App.tsx as a function of what useAuth gives it

ProtectedRoute(loading, user, role, allowedRoles) ==
    IF loading THEN LoadingElement
    ELSE IF user = NoUser THEN NavigateAuth
    ELSE IF role # NoRole /\ role \notin allowedRoles THEN NavigateAuth
    ELSE Children

InitRoute ==
    /\ studentRow = NoStudent
    /\ PipelineFresh
    /\ keywordRun = NoKeywordRun
    /\ route \in [loading : BOOLEAN, user : Users, role : Roles,
                  allowedRoles : AllowedRoleSets, element : {NotRendered}]

renderProtectedRoute ==
    /\ route.element = NotRendered
    /\ route' = [route EXCEPT !.element =
                    ProtectedRoute(route.loading, route.user, route.role,
                                   route.allowedRoles)]
    /\ UNCHANGED <<studentRow, studentInfo, formVars, flagVars, location, invVars,
                   feedback, keywordRun>>

SpecRoute == InitRoute /\ [][renderProtectedRoute]_vars

----------------------------------------------------------------------------
\* Vocabulary of the properties

\* Invocation i got past both validations
PassedValidation(i) ==
    \/ pc[i] \in {"awaitClassify", "awaitInsert"}
    \/ pc[i] = "done" /\ toast[i] \notin {MissingIdentityToast, MissingFieldsToast}

\* The table holds the row invocation i inserted
Stored(i) == \E row \in feedback : row.row = i

FailedResponses == {r \in RemoteResponses : r.kind \in {"error", "throw"}}
DataResponses == {r \in RemoteResponses : r.kind = "data"}
StoreErrors == StoreResults \ {"ok"}

----------------------------------------------------------------------------
\* C1: every record handed to insert carries a sentiment that is one of
\* Positive, Neutral, Negative, whatever the remote classifier did.
C1_InsertedSentimentIsLabel ==
    \A i \in Inv : insertCalls[i] > 0 => insertArg[i].sentiment \in Labels

\* C2: when invoke succeeds with a data object whose sentiment is empty,
\* absent or not one of the three labels, analyzeSentiment returns Neutral.
C2_UnrecognizedIsNeutral ==
    [][\A i \in Inv :
          (pc[i] = "awaitClassify" /\ pc'[i] = "awaitInsert") =>
              \A r \in DataResponses :
                  (r.sentiment \notin Labels /\ analyzeSentimentReturn(i, r))
                      => sentiment'[i] = Neutral]_vars

\* C3: when invoke returns an error or throws, analyzeSentiment returns the
\* keyword fallback of the same text, handleSubmit is not abandoned, and it
\* goes on to issue the insert with that label; an invocation that logged the
\* classification error holds the fallback label of the text it inserts.
C3_FailureUsesFallback ==
    [][/\ \A i \in Inv :
             (pc[i] = "awaitClassify" /\ pc'[i] # "awaitClassify") =>
                 \A r \in FailedResponses :
                     analyzeSentimentReturn(i, r) =>
                         /\ sentiment'[i] = FallbackOf[captured[i].feedbackText]
                         /\ SentimentErrorLog \in console'[i]
                         /\ pc'[i] = "awaitInsert"
                         /\ insertCalls'[i] = insertCalls[i] + 1
                         /\ insertArg'[i].sentiment = sentiment'[i]
                         /\ insertArg'[i].feedback_text = captured[i].feedbackText
       /\ \A i \in Inv :
             SentimentErrorLog \in console'[i] =>
                 /\ pc'[i] \in {"awaitInsert", "done"}
                 /\ insertCalls'[i] = 1
                 /\ insertArg'[i].sentiment = FallbackOf[insertArg'[i].feedback_text]
      ]_vars

\* C3 witness: an invocation whose classifier call failed has inserted with
\* the fallback label Negative and reported success.
C3_Witness ==
    \E i \in Inv :
        /\ pc[i] = "done"
        /\ SentimentErrorLog \in console[i]
        /\ insertArg[i].feedback_text = TextPoor
        /\ insertArg[i].sentiment = Negative
        /\ Stored(i)
        /\ toast[i] = SubmittedToast(Negative)

\* C4: a submit while studentInfo is null ends with the MissingIdentity toast,
\* whatever the form holds, and the invocation has made no classifier call and
\* no insert call.
C4_MissingIdentity ==
    [][/\ \A i \in Inv :
             (pc[i] = "idle" /\ pc'[i] # "idle" /\ studentInfo = NoStudent) =>
                 /\ pc'[i] = "done"
                 /\ toast'[i] = MissingIdentityToast
                 /\ classifyCalls' = classifyCalls
                 /\ insertCalls' = insertCalls
                 /\ feedback' = feedback
       /\ \A i \in Inv :
             toast'[i] = MissingIdentityToast =>
                 pc'[i] = "done" /\ classifyCalls'[i] = 0 /\ insertCalls'[i] = 0
      ]_vars

\* C4 witness: MissingIdentity was reported although the form is complete.
C4_Witness ==
    \E i \in Inv :
        /\ toast[i] = MissingIdentityToast
        /\ studentInfo = NoStudent
        /\ subject # "" /\ category # "" /\ feedbackText = TextFine
        /\ classifyCalls[i] = 0 /\ insertCalls[i] = 0

\* C5: a submit with a resolved student but an empty subject, an empty
\* category or a body that is empty after trimming ends with the MissingFields
\* toast, and the invocation has made no classifier call and no insert call.
C5_MissingFields ==
    [][/\ \A i \in Inv :
             (/\ pc[i] = "idle" /\ pc'[i] # "idle"
              /\ studentInfo # NoStudent
              /\ (subject = "" \/ category = "" \/ trim(feedbackText) = <<>>)) =>
                 /\ pc'[i] = "done"
                 /\ toast'[i] = MissingFieldsToast
                 /\ classifyCalls' = classifyCalls
                 /\ insertCalls' = insertCalls
                 /\ feedback' = feedback
       /\ \A i \in Inv :
             toast'[i] = MissingFieldsToast =>
                 pc'[i] = "done" /\ classifyCalls'[i] = 0 /\ insertCalls'[i] = 0
      ]_vars

\* C5 witness: MissingFields was reported for a body of whitespace only, with
\* subject and category chosen.
C5_Witness ==
    \E i \in Inv :
        /\ toast[i] = MissingFieldsToast
        /\ studentInfo # NoStudent
        /\ subject # "" /\ category # "" /\ feedbackText = TextBlank
        /\ classifyCalls[i] = 0 /\ insertCalls[i] = 0

\* C6: an invocation's insert has been issued only when its classification
\* has completed and produced the label the record carries; never while its
\* classifier call is pending or has not started.
C6_InsertAfterClassify ==
    \A i \in Inv :
        insertCalls[i] > 0 =>
            /\ pc[i] \in {"awaitInsert", "done"}
            /\ classifyCalls[i] = 1
            /\ sentiment[i] # ""
            /\ insertArg[i].sentiment = sentiment[i]

\* C6 witness: one invocation's insert is in flight while another invocation
\* still waits for its classification and has issued no insert.
C6_Witness ==
    \E i, j \in Inv :
        /\ pc[i] = "awaitInsert" /\ insertCalls[i] = 1 /\ sentiment[i] \in Labels
        /\ pc[j] = "awaitClassify" /\ insertCalls[j] = 0

\* C7: an invocation that passed validation has issued exactly one classifier
\* call and at most one insert; after a failed insert it has still issued one.
C7_OneCallEach ==
    \A i \in Inv :
        /\ classifyCalls[i] <= 1
        /\ insertCalls[i] <= 1
        /\ PassedValidation(i) => classifyCalls[i] = 1
        /\ pc[i] = "done" /\ PassedValidation(i) => insertCalls[i] = 1
        /\ toast[i] = SubmissionFailedToast => pc[i] = "done" /\ insertCalls[i] = 1

\* C7 witness: an invocation ended with a failed insert, having issued one
\* classifier call and one insert.
C7_Witness ==
    \E i \in Inv :
        /\ pc[i] = "done"
        /\ toast[i] = SubmissionFailedToast
        /\ ~Stored(i)
        /\ classifyCalls[i] = 1 /\ insertCalls[i] = 1

\* C8: a successful insert is reported as success with the label classify
\* produced: the label in the toast is the sentiment of the inserted record,
\* and the record's student id, branch and semester are the student profile's.
C8_SuccessReportsLabel ==
    /\ \A row \in feedback :
          /\ row.record = insertArg[row.row]
          /\ toast[row.row] = SubmittedToast(row.record.sentiment)
    /\ \A i \in Inv :
          toast[i].title = "Feedback Submitted" =>
              /\ Stored(i)
              /\ toast[i] = SubmittedToast(sentiment[i])
              /\ insertArg[i].sentiment = sentiment[i]
              /\ studentInfo # NoStudent
              /\ insertArg[i].student_id = studentInfo.id
              /\ insertArg[i].branch = studentInfo.branch
              /\ insertArg[i].semester = studentInfo.semester

\* C8 witness: a record classified Positive by the remote classifier is in
\* the table and the toast names Positive.
C8_Witness ==
    \E i \in Inv :
        /\ Stored(i)
        /\ SentimentErrorLog \notin console[i]
        /\ toast[i] = SubmittedToast(Positive)
        /\ insertArg[i].feedback_text = TextFine
        /\ insertArg[i].branch = "CSE"

\* C9: an insert that does not succeed, whatever the error, ends the
\* invocation with the one Submission Failed toast: no success report, no
\* navigation, no row, and the same toast for every kind of error.
C9_FailureIsGeneric ==
    [][/\ \A i \in Inv :
             (pc[i] = "awaitInsert" /\ pc'[i] # "awaitInsert") =>
                 \A res \in StoreErrors :
                     insertReturn(i, res) =>
                         /\ toast'[i] = SubmissionFailedToast
                         /\ pc'[i] = "done"
                         /\ location' = location
                         /\ feedback' = feedback
       /\ \A i \in Inv :
             (pc'[i] = "done" /\ insertCalls'[i] > 0 /\ ~Stored(i)') =>
                 toast'[i] = SubmissionFailedToast
      ]_vars

\* C9 witness: two invocations' inserts failed and both show the same toast.
C9_Witness ==
    \E i, j \in Inv :
        /\ i # j
        /\ pc[i] = "done" /\ pc[j] = "done"
        /\ insertCalls[i] = 1 /\ insertCalls[j] = 1
        /\ ~Stored(i) /\ ~Stored(j)
        /\ toast[i] = SubmissionFailedToast /\ toast[j] = toast[i]
        /\ location = FormPath

\* C10: a failed invocation leaves nothing behind that blocks the next one:
\* once nothing is in flight the flags are false and the form is still shown
\* (unless another invocation succeeded), handleSubmit is enabled for the next
\* invocation, a submit of valid input then issues its own classifier call,
\* and an invocation completed after a failure has issued its own insert.
C10_RetryNotBlocked ==
    [][\A i, j \in Inv :
          (i # j /\ pc[i] = "done" /\ toast[i] = SubmissionFailedToast) =>
              /\ ((\A k \in Inv : pc[k] \in {"idle", "done"} /\ ~Stored(k)) =>
                      /\ ~isSubmitting /\ ~isAnalyzing
                      /\ location = FormPath)
              /\ ((/\ pc[j] = "idle" /\ location = FormPath
                   /\ \A k \in Inv : k < j => pc[k] # "idle") =>
                      ENABLED handleSubmit(j))
              /\ ((/\ pc[j] = "idle" /\ pc'[j] # "idle"
                   /\ studentInfo # NoStudent
                   /\ subject # "" /\ category # "" /\ trim(feedbackText) # <<>>) =>
                      /\ pc'[j] = "awaitClassify"
                      /\ classifyCalls'[j] = 1
                      /\ captured'[j].feedbackText = feedbackText)
              /\ ((i < j /\ pc'[j] = "done" /\ classifyCalls'[j] = 1) =>
                      insertCalls'[j] = 1)
      ]_vars

\* C10 witness: the first invocation ended with a failed insert and nothing
\* else runs; the second, begun afterwards (isSubmitting is true again), has
\* made its own classifier call, has handed the same record to its own insert,
\* and that insert can succeed.
C10_Witness ==
    \E i, j \in Inv :
        /\ i < j
        /\ pc[i] = "done" /\ toast[i] = SubmissionFailedToast /\ ~Stored(i)
        /\ \A k \in Inv \ {i, j} : pc[k] = "idle"
        /\ pc[j] = "awaitInsert" /\ isSubmitting
        /\ insertArg[j] = insertArg[i]
        /\ classifyCalls[j] = 1 /\ insertCalls[j] = 1
        /\ ENABLED insertReturn(j, "ok")

----------------------------------------------------------------------------
\* Vocabulary of the keyword properties
HasPositiveKeyword(text) ==
    \E k \in PositiveKeywords : includes(toLowerCase(text), k)
HasNegativeKeyword(text) ==
    \E k \in NegativeKeywords : includes(toLowerCase(text), k)

\* C11: in the fallback a text holding a positive keyword (any case, as a
\* substring) is classified Positive, also when it holds a negative keyword.
C11_PositiveWins ==
    (keywordRun.label # NotRun /\ HasPositiveKeyword(keywordRun.text))
        => keywordRun.label = Positive

\* C11 witness: "great but terrible" was classified Positive.
C11_Witness ==
    /\ keywordRun.text = WordGreat \o WordButTerrible
    /\ HasPositiveKeyword(keywordRun.text) /\ HasNegativeKeyword(keywordRun.text)
    /\ keywordRun.label = Positive

\* C12: in the fallback a text without positive keyword is classified
\* Negative exactly when its lower-cased form holds a negative keyword, and
\* Neutral otherwise.
C12_NegativeElseNeutral ==
    (keywordRun.label # NotRun /\ ~HasPositiveKeyword(keywordRun.text)) =>
        /\ keywordRun.label = Negative <=> HasNegativeKeyword(keywordRun.text)
        /\ keywordRun.label = Neutral <=> ~HasNegativeKeyword(keywordRun.text)

\* C12 witness: "disappointed and POOR" was classified Negative.
C12_Witness ==
    /\ keywordRun.text = WordDisappointed \o WordPoor
    /\ ~HasPositiveKeyword(keywordRun.text)
    /\ keywordRun.label = Negative

\* C13: when invoke succeeds with one of Positive, Neutral, Negative,
\* analyzeSentiment returns that label unchanged whatever keywords the text
\* holds; the catch block does not run.
C13_RecognizedReturned ==
    [][\A i \in Inv :
          (pc[i] = "awaitClassify" /\ pc'[i] # "awaitClassify") =>
              \A r \in DataResponses :
                  (r.sentiment \in Labels /\ analyzeSentimentReturn(i, r)) =>
                      /\ sentiment'[i] = r.sentiment
                      /\ insertArg'[i].sentiment = r.sentiment
                      /\ console'[i] = console[i]]_vars

\* C13 witness: " Great but bad", which the keywords call Positive, carries
\* the remote label Negative.
C13_Witness ==
    \E i \in Inv :
        /\ pc[i] \in {"awaitInsert", "done"}
        /\ insertArg[i].feedback_text = TextGreatButBad
        /\ FallbackOf[TextGreatButBad] = Positive
        /\ sentiment[i] = Negative
        /\ SentimentErrorLog \notin console[i]

\* C14: provided its classifier call and its insert settle, an invocation
\* that got past validation reaches its end with a success or a failure
\* toast, at which point isSubmitting is false, and isAnalyzing is false again
\* at some point after it began.
C14_RunsToCompletion ==
    \A i \in Inv :
        /\ (pc[i] = "awaitClassify") ~>
               (/\ pc[i] = "done"
                /\ toast[i].title \in {"Feedback Submitted", "Submission Failed"}
                /\ ~isSubmitting)
        /\ (pc[i] = "awaitClassify") ~> ~isAnalyzing

\* C14 witness: an invocation that got past validation has ended and both
\* flags are false.
C14_Witness ==
    \E i \in Inv :
        /\ pc[i] = "done" /\ PassedValidation(i)
        /\ classifyCalls[i] = 1 /\ insertCalls[i] = 1
        /\ ~isSubmitting /\ ~isAnalyzing

\* C15: handleSubmit has no guard against re-entrance: while one invocation
\* is under way another may begin, a submit of valid input then issues its
\* own classifier call, and two invocations whose inserts succeeded have each
\* issued their own insert and left two rows in the table.
C15_NoReentrancyGuard ==
    [][\A i, j \in Inv :
          i # j =>
              /\ ((/\ pc[i] \in {"awaitClassify", "awaitInsert"}
                   /\ pc[j] = "idle" /\ location = FormPath
                   /\ \A k \in Inv : k < j => pc[k] # "idle") =>
                      ENABLED handleSubmit(j))
              /\ ((/\ pc[i] \in {"awaitClassify", "awaitInsert"}
                   /\ pc[j] = "idle" /\ pc'[j] # "idle"
                   /\ studentInfo # NoStudent
                   /\ subject # "" /\ category # "" /\ trim(feedbackText) # <<>>) =>
                      /\ pc'[j] = "awaitClassify"
                      /\ classifyCalls'[j] = 1
                      /\ classifyArg'[j].text = feedbackText)
              /\ ((Stored(i)' /\ Stored(j)') =>
                      /\ classifyCalls'[i] = 1 /\ classifyCalls'[j] = 1
                      /\ insertCalls'[i] = 1 /\ insertCalls'[j] = 1
                      /\ [row |-> i, record |-> insertArg'[i]] \in feedback'
                      /\ [row |-> j, record |-> insertArg'[j]] \in feedback'
                      /\ Cardinality(feedback') >= 2)
      ]_vars

\* C15 witness: two invocations inserted the same record and the table holds
\* two rows. The second began before the first ended, for the form is left
\* once an insert succeeds.
C15_Witness ==
    \E i, j \in Inv :
        /\ i # j
        /\ Stored(i) /\ Stored(j)
        /\ insertArg[i] = insertArg[j]
        /\ Cardinality(feedback) = 2
        /\ location = StudentPath

\* C16: in every state in which some invocation got past validation and has
\* not ended, overlapping invocations included, isSubmitting or isAnalyzing
\* is true, so that the submit button is disabled.
C16_FlagWhileInFlight ==
    (\E i \in Inv : pc[i] \in {"awaitClassify", "awaitInsert"})
        => (isSubmitting \/ isAnalyzing)

\* C17: the router leaves the form for /student only in the step in which an
\* invocation's insert succeeded; a step that ends an invocation with the
\* MissingIdentity, the MissingFields or the Submission Failed toast leaves
\* the location and the form's subject, category and feedback text as they were.
C17_NavigateOnSuccessOnly ==
    [][/\ location' # location =>
             /\ location' = StudentPath
             /\ \E i \in Inv :
                   /\ pc[i] = "awaitInsert" /\ pc'[i] = "done"
                   /\ ~Stored(i) /\ Stored(i)'
                   /\ toast'[i].title = "Feedback Submitted"
       /\ \A i \in Inv :
             (/\ pc[i] # "done" /\ pc'[i] = "done"
              /\ toast'[i] \in {MissingIdentityToast, MissingFieldsToast,
                                SubmissionFailedToast}) =>
                 /\ location' = location
                 /\ subject' = subject
                 /\ category' = category
                 /\ feedbackText' = feedbackText
      ]_vars

\* C17 witness: an insert failed and the form is still shown with the values
\* that were submitted.
C17_Witness ==
    \E i \in Inv :
        /\ pc[i] = "done" /\ toast[i] = SubmissionFailedToast
        /\ location = FormPath
        /\ subject # "" /\ subject = insertArg[i].subject
        /\ category = insertArg[i].category
        /\ feedbackText = TextGreatButBad
        /\ feedbackText = insertArg[i].feedback_text

\* C18: ProtectedRoute renders its children only when loading is over, a user
\* is signed in and the user's role is one of allowedRoles; with no user, a
\* role outside allowedRoles or a role not yet known (null) it renders the
\* loading placeholder or the redirect to /auth.
C18_ChildrenOnlyForAllowedRole ==
    route.element = Children =>
        /\ ~route.loading
        /\ route.user # NoUser
        /\ route.role \in route.allowedRoles

\* C19: the text an invocation hands to the classifier is the feedback text
\* as typed (validation looked only at its trimmed form), and the
\* feedback_text of the record the same invocation hands to insert is that
\* same string.
C19_SameRawText ==
    [][\A i \in Inv :
          /\ (pc[i] = "idle" /\ pc'[i] = "awaitClassify") =>
                 /\ trim(feedbackText) # <<>>
                 /\ classifyArg'[i].text = feedbackText
          /\ (pc[i] = "awaitClassify" /\ pc'[i] = "awaitInsert") =>
                 insertArg'[i].feedback_text = classifyArg[i].text
          /\ insertCalls'[i] > 0 =>
                 insertArg'[i].feedback_text = classifyArg'[i].text
      ]_vars

\* C19 witness: a text with surrounding whitespace was classified and handed
\* to insert as typed.
C19_Witness ==
    \E i \in Inv :
        /\ insertCalls[i] > 0
        /\ classifyArg[i].text = TextGreatButBad
        /\ insertArg[i].feedback_text = TextGreatButBad
        /\ trim(TextGreatButBad) # TextGreatButBad

====
